---- MODULE Spec2Model ----
(***************************************************************************)
(* A model of src/src/cpu.rs: the register file, the status register, the  *)
(* flat memory, the loader, reset and the fetch-decode-execute loop of the *)
(* CPU struct.                                                             *)
(*                                                                         *)
(* Representation.  The field `memory: [u8; 0xFFFF]` is zeroed by new()    *)
(* (line 49) and afterwards changed only by the slice copy of load (line   *)
(* 62) and by memory_write (line 37).  The variable `memory` holds the     *)
(* array as the set of the disjoint written segments, each [at, src]: the  *)
(* bytes `src` stored from address `at` on; every address outside the      *)
(* segments still holds the 0 of new().  A byte vector (a Vec<u8>, a       *)
(* segment's bytes) is written head \o fill^reps \o tail, so that a vector *)
(* of 0x7FFF bytes stays a small value.  memory_read gives the byte an     *)
(* address holds; nothing else looks into the representation.              *)
(***************************************************************************)
EXTENDS Integers, Sequences, FiniteSets, TLC

VARIABLES register_a, register_x, register_y, processor_status,
          program_counter, memory,
          phase, call, program, opscode, panic, calls

vars == <<register_a, register_x, register_y, processor_status,
          program_counter, memory, phase, call, program, opscode, panic, calls>>

regs == <<register_a, register_x, register_y, processor_status>>

\* ------------------------------------------------------------ constants

MemSize == 65535
Origin == 32768
ResetVector == 65532
MaxU8 == 255
MaxU16 == 65535
ZeroFlag == 2
ZeroMask == 253
NegativeFlag == 128
NegativeMask == 127
OpLDA == 169
OpTAX == 170
OpINX == 232
OpBRK == 0

\* The number of public operations (load, reset, execute, load_and_run, a
\* write of a public field) applied to one machine before it is dropped.
MaxCalls == 3

\* ------------------------------------------------------------ bytes

Byte == 0..MaxU8

RECURSIVE Pow2(_)
Pow2(k) == IF k = 0 THEN 1 ELSE 2 * Pow2(k - 1)

Bit(b, k) == (b \div Pow2(k)) % 2

RECURSIVE BitAndFrom(_, _, _)
BitAndFrom(a, b, k) ==
    IF k > 7 THEN 0
    ELSE (IF Bit(a, k) = 1 /\ Bit(b, k) = 1 THEN Pow2(k) ELSE 0) + BitAndFrom(a, b, k + 1)

RECURSIVE BitOrFrom(_, _, _)
BitOrFrom(a, b, k) ==
    IF k > 7 THEN 0
    ELSE (IF Bit(a, k) = 1 \/ Bit(b, k) = 1 THEN Pow2(k) ELSE 0) + BitOrFrom(a, b, k + 1)

\* a & b and a | b on u8
BitAnd(a, b) == BitAndFrom(a, b, 0)
BitOr(a, b) == BitOrFrom(a, b, 0)

\* The sum saturating at 0xFF instead of wrapping.
saturating_add(a, b) == IF a + b > MaxU8 THEN MaxU8 ELSE a + b

\* u8::wrapping_add
wrapping_add(a, b) == (a + b) % (MaxU8 + 1)

\* ------------------------------------------------------------ byte vectors

\* A Vec<u8>: head \o <<fill, ..., fill>> (reps times) \o tail.
Vec(h) == [head |-> h, fill |-> 0, reps |-> 0, tail |-> <<>>]
Filled(h, f, n, t) == [head |-> h, fill |-> f, reps |-> n, tail |-> t]

\* program.len()
VLen(v) == Len(v.head) + v.reps + Len(v.tail)

\* program[i], 0 <= i < len
VAt(v, i) ==
    IF i < Len(v.head) THEN v.head[i + 1]
    ELSE IF i < Len(v.head) + v.reps THEN v.fill
    ELSE v.tail[i - Len(v.head) - v.reps + 1]

Min(a, b) == IF a < b THEN a ELSE b

\* v[k..]: v without its first k bytes, 0 <= k <= len
VDrop(v, k) ==
    LET h == Min(k, Len(v.head))
        r == Min(k - h, v.reps)
        t == k - h - r
    IN  [head |-> SubSeq(v.head, h + 1, Len(v.head)),
         fill |-> IF v.reps - r = 0 THEN 0 ELSE v.fill,
         reps |-> v.reps - r,
         tail |-> SubSeq(v.tail, t + 1, Len(v.tail))]

\* v[..k]: the first k bytes of v, 0 <= k <= len
VTake(v, k) ==
    LET h == Min(k, Len(v.head))
        r == Min(k - h, v.reps)
        t == k - h - r
    IN  [head |-> SubSeq(v.head, 1, h),
         fill |-> IF r = 0 THEN 0 ELSE v.fill,
         reps |-> r,
         tail |-> SubSeq(v.tail, 1, t)]

\* ------------------------------------------------------------ memory

\* memory: [0; 0xFFFF]
ZeroMemory == {}

SegEnd(s) == s.at + VLen(s.src)

\* The index of a read or a write is inside the array.
InBounds(addr) == addr < MemSize

\* fn memory_read: self.memory[addr as usize], for an index inside the array
memory_read(mem, addr) ==
    IF \E s \in mem : s.at <= addr /\ addr < SegEnd(s)
    THEN LET s == CHOOSE s \in mem : s.at <= addr /\ addr < SegEnd(s)
         IN  VAt(s.src, addr - s.at)
    ELSE 0

\* self.memory[at .. at + len].copy_from_slice(src), the range inside the array.
\* A segment the range cuts keeps what lies left and what lies right of it.
copy_from_slice(mem, at, src) ==
    LET end == at + VLen(src)
        keep == {s \in mem : SegEnd(s) <= at \/ s.at >= end}
        left == {[at |-> s.at, src |-> VTake(s.src, at - s.at)] :
                    s \in {s \in mem : s.at < at /\ SegEnd(s) > at}}
        right == {[at |-> end, src |-> VDrop(s.src, end - s.at)] :
                    s \in {s \in mem : s.at < end /\ SegEnd(s) > end}}
    IN  IF VLen(src) = 0 THEN mem
        ELSE keep \cup left \cup right \cup {[at |-> at, src |-> src]}

\* fn memory_write
memory_write(mem, addr, data) == copy_from_slice(mem, addr, Vec(<<data>>))

\* fn memory_read_u16: (hi << 8) | lo, the two bytes disjoint in the u16
memory_read_u16(mem, pos) ==
    LET lo == memory_read(mem, pos)
        hi == memory_read(mem, pos + 1)
    IN  hi * (MaxU8 + 1) + lo

\* memory_write_u16 storing the high byte first (big-endian).
memory_write_u16_be(mem, pos, data) ==
    LET hi == data \div (MaxU8 + 1)
        lo == data % (MaxU8 + 1)
    IN  memory_write(memory_write(mem, pos, hi), pos + 1, lo)

\* fn memory_write_u16
memory_write_u16(mem, pos, data) ==
    LET hi == data \div (MaxU8 + 1)
        lo == data % (MaxU8 + 1)
    IN  memory_write(memory_write(mem, pos, lo), pos + 1, hi)

\* ------------------------------------------------------------ panics

NoPanic == [msg |-> "", values |-> <<>>]

\* todo!(): "not yet implemented", no value of the machine in the message
TodoPanic == [msg |-> "not yet implemented", values |-> <<>>]

\* an array index past the end: "index out of bounds: the len is .. but the index is .."
IndexPanic(index) == [msg |-> "index out of bounds", values |-> <<MemSize, index>>]

\* a slice range past the end: "range end index .. out of range for slice of length .."
SlicePanic(end) == [msg |-> "range end index out of range", values |-> <<end, MemSize>>]

\* ------------------------------------------------------------ the machine

\* A call can be made on a machine that is not inside execute and has not panicked.
Callable == phase \in {"Idle", "Halted"} /\ calls < MaxCalls

\* The flags computed from the result alone, the other six bits of the
\* status dropped.
update_flags_only(status, result) ==
    (IF result = 0 THEN ZeroFlag ELSE 0)
        + (IF BitAnd(result, NegativeFlag) # 0 THEN NegativeFlag ELSE 0)

\* The flags with Negative set when bit 7 of the result is set and never
\* cleared.
update_flags_negative_kept(status, result) ==
    LET z == IF result = 0 THEN BitOr(status, ZeroFlag)
                           ELSE BitAnd(status, ZeroMask)
    IN  IF BitAnd(result, NegativeFlag) # 0 THEN BitOr(z, NegativeFlag) ELSE z

\* fn update_zero_and_negative_flags, as the new status
update_zero_and_negative_flags(status, result) ==
    LET z == IF result = 0 THEN BitOr(status, ZeroFlag) ELSE BitAnd(status, ZeroMask)
    IN  IF BitAnd(result, NegativeFlag) # 0
        THEN BitOr(z, NegativeFlag)
        ELSE BitAnd(z, NegativeMask)

\* lda with the flags taken from the accumulator before the load.
lda_stale_flags(value) ==
    /\ register_a' = value
    /\ processor_status' = update_zero_and_negative_flags(processor_status, register_a)
    /\ UNCHANGED register_x

\* fn lda
lda(value) ==
    /\ register_a' = value
    /\ processor_status' = update_zero_and_negative_flags(processor_status, value)
    /\ UNCHANGED register_x

\* tax moving the wrong way: X to A.
tax_reversed ==
    /\ register_a' = register_x
    /\ processor_status' = update_zero_and_negative_flags(processor_status, register_x)
    /\ UNCHANGED register_x

\* fn tax
tax ==
    /\ register_x' = register_a
    /\ processor_status' = update_zero_and_negative_flags(processor_status, register_a)
    /\ UNCHANGED register_a

\* fn inx
inx ==
    /\ register_x' = wrapping_add(register_x, 1)
    /\ processor_status' =
          update_zero_and_negative_flags(processor_status, wrapping_add(register_x, 1))
    /\ UNCHANGED register_a

\* CPU::new()
Init ==
    /\ register_a = 0
    /\ register_x = 0
    /\ register_y = 0
    /\ processor_status = 0
    /\ program_counter = 0
    /\ memory = ZeroMemory
    /\ phase = "Idle"
    /\ call = "new"
    /\ program = Vec(<<>>)
    /\ opscode = 0
    /\ panic = NoPanic
    /\ calls = 0

\* The machine is dropped and a new one constructed.
New ==
    /\ phase # "Running"
    /\ register_a' = 0
    /\ register_x' = 0
    /\ register_y' = 0
    /\ processor_status' = 0
    /\ program_counter' = 0
    /\ memory' = ZeroMemory
    /\ phase' = "Idle"
    /\ call' = "new"
    /\ program' = Vec(<<>>)
    /\ opscode' = 0
    /\ panic' = NoPanic
    /\ calls' = 0

\* A write of one of the pub fields, as in cpu.register_x = 0xff.
Poke(f, v) ==
    /\ Callable
    /\ register_a' = (IF f = "register_a" THEN v ELSE register_a)
    /\ register_x' = (IF f = "register_x" THEN v ELSE register_x)
    /\ register_y' = (IF f = "register_y" THEN v ELSE register_y)
    /\ processor_status' = (IF f = "processor_status" THEN v ELSE processor_status)
    /\ program_counter' = (IF f = "program_counter" THEN v ELSE program_counter)
    /\ phase' = "Idle"
    /\ call' = "write"
    /\ calls' = calls + 1
    /\ UNCHANGED <<memory, program, opscode, panic>>

\* The range check of an array of 0x10000 bytes.
LoadFits_64k(p) == Origin + VLen(p) <= MaxU16 + 1

\* The slice range of load is inside the array.
LoadFits(p) == Origin + VLen(p) <= MemSize

\* load writing the reset vector first and copying the program over it.
Loaded_vector_first(mem, p) ==
    copy_from_slice(memory_write_u16(mem, ResetVector, Origin), Origin, p)

\* The memory load leaves: the program copied to the origin, then the reset vector.
Loaded(mem, p) ==
    memory_write_u16(copy_from_slice(mem, Origin, p), ResetVector, Origin)

\* pub fn load
Load(p) ==
    /\ Callable
    /\ call' = "load"
    /\ program' = p
    /\ calls' = calls + 1
    /\ IF LoadFits(p)
       THEN /\ memory' = Loaded(memory, p)
            /\ phase' = "Idle"
            /\ UNCHANGED panic
       ELSE /\ phase' = "Panicked"
            /\ panic' = SlicePanic(Origin + VLen(p))
            /\ UNCHANGED memory
    /\ UNCHANGED <<regs, program_counter, opscode>>

\* reset clearing index Y as well.
Reset_clears_y ==
    /\ Callable
    /\ register_a' = 0
    /\ register_x' = 0
    /\ register_y' = 0
    /\ processor_status' = 0
    /\ program_counter' = memory_read_u16(memory, ResetVector)
    /\ phase' = "Idle"
    /\ call' = "reset"
    /\ calls' = calls + 1
    /\ UNCHANGED <<memory, program, opscode, panic>>

\* pub fn reset
Reset ==
    /\ Callable
    /\ register_a' = 0
    /\ register_x' = 0
    /\ processor_status' = 0
    /\ program_counter' = memory_read_u16(memory, ResetVector)
    /\ phase' = "Idle"
    /\ call' = "reset"
    /\ calls' = calls + 1
    /\ UNCHANGED <<register_y, memory, program, opscode, panic>>

\* fn memory_write_u16 called at pos with data: the low byte is written,
\* then the high byte; a write outside the array panics, after the low
\* byte is in memory when it is the high byte's address that is outside.
WriteWord(pos, data) ==
    /\ Callable
    /\ call' = "memory_write_u16"
    /\ calls' = calls + 1
    /\ IF InBounds(pos) /\ InBounds(pos + 1)
       THEN /\ memory' = memory_write_u16(memory, pos, data)
            /\ phase' = "Idle"
            /\ UNCHANGED panic
       ELSE IF InBounds(pos)
       THEN /\ memory' = memory_write(memory, pos, data % (MaxU8 + 1))
            /\ phase' = "Panicked"
            /\ panic' = IndexPanic(pos + 1)
       ELSE /\ phase' = "Panicked"
            /\ panic' = IndexPanic(pos)
            /\ UNCHANGED memory
    /\ UNCHANGED <<regs, program_counter, program, opscode>>

\* pub fn execute, entered
Execute ==
    /\ Callable
    /\ phase' = "Running"
    /\ call' = "execute"
    /\ calls' = calls + 1
    /\ UNCHANGED <<regs, program_counter, memory, program, opscode, panic>>

\* pub fn execute, entered again on a machine that was never reset: the
\* pointer it left is where the next fetch reads. The calls are not counted;
\* their number is bounded by the pointer, which each call moves up.
ExecuteAgain ==
    /\ phase \in {"Idle", "Halted"}
    /\ phase' = "Running"
    /\ call' = "execute"
    /\ UNCHANGED <<regs, program_counter, memory, program, opscode, panic,
                   calls>>

\* load_and_run without its reset: load, and execute entered with the
\* registers, the status and the pointer the caller left.
LoadAndRun_without_reset(p) ==
    /\ Callable
    /\ call' = "load_and_run"
    /\ program' = p
    /\ calls' = calls + 1
    /\ IF LoadFits(p)
       THEN /\ memory' = Loaded(memory, p)
            /\ phase' = "Running"
            /\ UNCHANGED panic
       ELSE /\ phase' = "Panicked"
            /\ panic' = SlicePanic(Origin + VLen(p))
            /\ UNCHANGED memory
    /\ UNCHANGED <<regs, program_counter, opscode>>

\* pub fn load_and_run: load, reset, and execute entered
LoadAndRun(p) ==
    /\ Callable
    /\ call' = "load_and_run"
    /\ program' = p
    /\ calls' = calls + 1
    /\ IF LoadFits(p)
       THEN /\ memory' = Loaded(memory, p)
            /\ register_a' = 0
            /\ register_x' = 0
            /\ processor_status' = 0
            /\ program_counter' = memory_read_u16(Loaded(memory, p), ResetVector)
            /\ phase' = "Running"
            /\ UNCHANGED panic
       ELSE /\ phase' = "Panicked"
            /\ panic' = SlicePanic(Origin + VLen(p))
            /\ UNCHANGED <<register_a, register_x, processor_status,
                           program_counter, memory>>
    /\ UNCHANGED <<register_y, opscode>>

\* The halt opcode taken as a no-op: the loop goes on.
brk_continues ==
    /\ UNCHANGED <<phase, register_a, register_x, processor_status, panic>>

\* 0x00 => return
brk ==
    /\ phase' = "Halted"
    /\ UNCHANGED <<register_a, register_x, processor_status, panic>>

\* _ => todo!()
unimplemented ==
    /\ phase' = "Faulted"
    /\ panic' = TodoPanic
    /\ UNCHANGED <<register_a, register_x, processor_status>>

\* The arms with the second increment of the 0xA9 arm left out: the operand
\* is the next byte fetched as an opcode.
Arm_operand_not_skipped(op, pc1) ==
    CASE op = OpLDA ->
           IF InBounds(pc1)
           THEN /\ lda(memory_read(memory, pc1))
                /\ program_counter' = pc1
                /\ UNCHANGED <<phase, panic>>
           ELSE /\ phase' = "Panicked"
                /\ panic' = IndexPanic(pc1)
                /\ program_counter' = pc1
                /\ UNCHANGED <<register_a, register_x, processor_status>>
      [] op = OpTAX ->
           /\ tax
           /\ program_counter' = pc1
           /\ UNCHANGED <<phase, panic>>
      [] op = OpINX ->
           /\ inx
           /\ program_counter' = pc1
           /\ UNCHANGED <<phase, panic>>
      [] op = OpBRK ->
           /\ brk
           /\ program_counter' = pc1
      [] OTHER ->
           /\ unimplemented
           /\ program_counter' = pc1

\* The arm of the match for opscode, the pointer already past the opcode at pc1.
\* Both increments of program_counter follow an array index at its old value,
\* so the u16 never overflows: the index panics first.
Arm(op, pc1) ==
    CASE op = OpLDA ->
           IF InBounds(pc1)
           THEN /\ lda(memory_read(memory, pc1))
                /\ program_counter' = pc1 + 1
                /\ UNCHANGED <<phase, panic>>
           ELSE /\ phase' = "Panicked"
                /\ panic' = IndexPanic(pc1)
                /\ program_counter' = pc1
                /\ UNCHANGED <<register_a, register_x, processor_status>>
      [] op = OpTAX ->
           /\ tax
           /\ program_counter' = pc1
           /\ UNCHANGED <<phase, panic>>
      [] op = OpINX ->
           /\ inx
           /\ program_counter' = pc1
           /\ UNCHANGED <<phase, panic>>
      [] op = OpBRK ->
           /\ brk
           /\ program_counter' = pc1
      [] OTHER ->
           /\ unimplemented
           /\ program_counter' = pc1

\* One iteration of the loop of execute: fetch, advance, decode, run the arm.
Step ==
    /\ phase = "Running"
    /\ IF InBounds(program_counter)
       THEN /\ opscode' = memory_read(memory, program_counter)
            /\ Arm(memory_read(memory, program_counter), program_counter + 1)
       ELSE /\ phase' = "Panicked"
            /\ panic' = IndexPanic(program_counter)
            /\ UNCHANGED <<register_a, register_x, processor_status,
                           program_counter, opscode>>
    /\ UNCHANGED <<register_y, memory, call, program, calls>>

\* ------------------------------------------------------------ inputs

\* The programs handed to load and load_and_run.
Programs ==
    { Vec(<<>>),
      Vec(<<0>>),
      Vec(<<169, 5, 0>>),
      Vec(<<169, 0, 0>>),
      Vec(<<169, 255, 0>>),
      Vec(<<169, 5, 170, 0>>),
      Vec(<<169, 255, 170, 232, 0>>),
      Vec(<<169, 127, 170, 232, 0>>),
      Vec(<<169, 0, 169, 5, 0>>),
      Vec(<<0, 232, 170, 0>>),
      Vec(<<0, 169, 128, 170, 232, 0>>),
      Vec(<<232, 2, 232, 0>>),
      Filled(<<0>>, 0, MemSize - Origin - 5, <<169, 232, 232, 232>>),
      Filled(<<0>>, 0, MemSize - Origin - 5, <<169>>),
      Filled(<<>>, 232, MemSize - Origin + 1, <<>>) }

\* The direct writes of public fields.
Writes ==
    { [field |-> "register_a", value |-> 255],
      [field |-> "register_x", value |-> 255],
      [field |-> "register_y", value |-> 7],
      [field |-> "processor_status", value |-> 255],
      [field |-> "processor_status", value |-> 125],
      [field |-> "program_counter", value |-> Origin],
      [field |-> "program_counter", value |-> ResetVector - 1],
      [field |-> "program_counter", value |-> MemSize - 1],
      [field |-> "program_counter", value |-> MaxU16] }

Next ==
    \/ New
    \/ \E w \in Writes : Poke(w.field, w.value)
    \/ \E p \in Programs : Load(p)
    \/ Reset
    \/ Execute
    \/ \E p \in Programs : LoadAndRun(p)
    \/ Step

Spec == Init /\ [][Next]_vars

\* The programs of the tests, for every byte: [LDA v, BRK], [LDA v, TAX, BRK]
\* and [LDA v, TAX, INX, BRK].
BytePrograms ==
    {Vec(<<OpLDA, v, OpBRK>>) : v \in Byte}
        \cup {Vec(<<OpLDA, v, OpTAX, OpBRK>>) : v \in Byte}
        \cup {Vec(<<OpLDA, v, OpTAX, OpINX, OpBRK>>) : v \in Byte}

\* The writes of public fields made before a test's load_and_run.
TestWrites ==
    { [field |-> "register_x", value |-> 255],
      [field |-> "register_y", value |-> 7],
      [field |-> "processor_status", value |-> 255] }

\* What the tests do: construct, write public fields, load_and_run on the
\* memory new() left.
RunTest(p) == memory = ZeroMemory /\ LoadAndRun(p)

NextBytes ==
    \/ New
    \/ \E w \in TestWrites : Poke(w.field, w.value)
    \/ \E p \in BytePrograms : RunTest(p)
    \/ Step

SpecBytes == Init /\ [][NextBytes]_vars

\* Programs that run up to the top of memory: LDA #0xA9 repeated from the
\* origin (opcodes at even addresses) and INX followed by it (opcodes at odd
\* addresses), both 0x7FFF bytes long; two short programs, one running on
\* into what an earlier load left and one faulting; and the empty program,
\* which runs what an earlier load left.
TopPrograms ==
    { Filled(<<>>, 169, MemSize - Origin, <<>>),
      Filled(<<232>>, 169, MemSize - Origin - 1, <<>>),
      Vec(<<232>>),
      Vec(<<169, 5, 2>>),
      Vec(<<>>) }

NextTop ==
    \/ New
    \/ \E p \in TopPrograms : LoadAndRun(p)
    \/ Step

SpecTop == Init /\ [][NextTop]_vars

\* execute called over and over on the machine new() constructed: every
\* byte of memory is 0x00, so every call halts one byte further up.
NextAgain ==
    \/ ExecuteAgain
    \/ Step

SpecAgain == Init /\ [][NextAgain]_vars

\* The addresses 16-bit values are written at: the bottom of memory, the
\* byte below the origin, the reset vector, the last address with a byte
\* after it, the last byte of the array and the address past it.
WordAddrs == {0, Origin - 1, ResetVector, MemSize - 2, MemSize - 1, MemSize}

\* The 16-bit values written: the origin, and values whose bytes differ.
Words == {Origin, MaxU8, 4660, MaxU16}

\* The program loaded under the values written.
WordPrograms == {Vec(<<169, 5, 0>>)}

\* 16-bit writes on the memory new() and load leave.
NextWords ==
    \/ New
    \/ \E p \in WordPrograms : Load(p)
    \/ \E pos \in WordAddrs, data \in Words : WriteWord(pos, data)

SpecWords == Init /\ [][NextWords]_vars

\* ------------------------------------------------------------ properties

\* Bit 1 of the status register (Zero) and bit 7 (Negative).
ZeroSet(status) == Bit(status, 1) = 1
NegativeSet(status) == Bit(status, 7) = 1

\* load_and_run has returned or panicked.
RunEnded == call = "load_and_run" /\ phase # "Running"

\* The opcode the next iteration of execute fetches.
Fetching(op) ==
    /\ phase = "Running"
    /\ InBounds(program_counter)
    /\ memory_read(memory, program_counter) = op

\* C1: for every byte v, load_and_run of [0xA9, v, 0x00] ends Halted with the
\* accumulator equal to v, Zero set iff v = 0 and Negative set iff bit 7 of v.
C1_LdaImmediate ==
    RunEnded =>
        \A v \in Byte :
            program = Vec(<<169, v, 0>>) =>
                /\ phase = "Halted"
                /\ register_a = v
                /\ ZeroSet(processor_status) <=> (v = 0)
                /\ NegativeSet(processor_status) <=> (v >= 128)

C1_Witness ==
    /\ RunEnded
    /\ program = Vec(<<169, 128, 0>>)
    /\ phase = "Halted"
    /\ register_a = 128
    /\ processor_status = 128

\* C2: a step that executes 0xAA sets X to the accumulator, leaves the
\* accumulator as it was and sets Zero and Negative from the new X; and for
\* every byte v, load_and_run of [0xA9, v, 0xAA, 0x00] ends with X = A = v.
C2_TaxStep ==
    Fetching(170) =>
        /\ register_x' = register_a
        /\ register_a' = register_a
        /\ ZeroSet(processor_status') <=> (register_x' = 0)
        /\ NegativeSet(processor_status') <=> (register_x' >= 128)

C2_TaxResult ==
    RunEnded =>
        \A v \in Byte :
            program = Vec(<<169, v, 170, 0>>) =>
                /\ phase = "Halted"
                /\ register_x = v
                /\ register_a = v

C2_Transfer == [][C2_TaxStep]_vars /\ []C2_TaxResult

C2_Witness ==
    /\ RunEnded
    /\ program = Vec(<<169, 5, 170, 0>>)
    /\ phase = "Halted"
    /\ register_x = 5
    /\ register_a = 5

\* C3: a step that executes 0xE8 sets X to (X + 1) mod 256 for every X and
\* does not fault; from 0xFF the result is 0 with Zero set and Negative clear;
\* load_and_run of [0xA9, 0xFF, 0xAA, 0xE8, 0x00] ends with X = 0.
C3_InxStep ==
    Fetching(232) =>
        /\ register_x' = (IF register_x = 255 THEN 0 ELSE register_x + 1)
        /\ phase' = "Running"
        /\ panic' = NoPanic
        /\ register_x = 255 =>
              /\ register_x' = 0
              /\ ZeroSet(processor_status')
              /\ ~NegativeSet(processor_status')

C3_InxResult ==
    (RunEnded /\ program = Vec(<<169, 255, 170, 232, 0>>)) =>
        /\ phase = "Halted"
        /\ register_x = 0

C3_Increment == [][C3_InxStep]_vars /\ []C3_InxResult

C3_Witness ==
    /\ call = "load_and_run"
    /\ phase = "Running"
    /\ program = Vec(<<169, 255, 170, 232, 0>>)
    /\ opscode = 232
    /\ register_x = 0
    /\ register_a = 255
    /\ processor_status = 2

\* C4: the step that fetches 0x00 ends execute at once: the pointer is left
\* one past the halt opcode, A, X, Y and the status are as before the fetch,
\* and nothing is fetched after it, whatever bytes follow the halt in memory
\* (every later step of a halted machine is a new call on it).
C4_HaltStep ==
    Fetching(0) =>
        /\ phase' = "Halted"
        /\ program_counter' = program_counter + 1
        /\ register_a' = register_a
        /\ register_x' = register_x
        /\ register_y' = register_y
        /\ processor_status' = processor_status

C4_NothingAfterHalt ==
    phase = "Halted" => calls' # calls

C4_HaltStops == [][C4_HaltStep /\ C4_NothingAfterHalt]_vars

C4_Witness ==
    /\ RunEnded
    /\ phase = "Halted"
    /\ program = Vec(<<0, 232, 170, 0>>)
    /\ program_counter = 32769
    /\ register_x = 0
    /\ register_y = 7

\* C5: the step that fetches an opcode outside {0xA9, 0xAA, 0xE8, 0x00} ends
\* Faulted, the panic reporting the opcode and the pointer (before or after
\* the fetch); the byte is not skipped and nothing runs after it.
C5_FaultStep ==
    (/\ phase = "Running"
     /\ InBounds(program_counter)
     /\ memory_read(memory, program_counter) \notin {169, 170, 232, 0}) =>
        /\ phase' = "Faulted"
        /\ \E i \in DOMAIN panic'.values :
               panic'.values[i] = memory_read(memory, program_counter)
        /\ \E i \in DOMAIN panic'.values :
               panic'.values[i] \in {program_counter, program_counter'}

C5_NothingAfterFault == phase = "Faulted" => call' = "new"

C5_FaultReported == [][C5_FaultStep /\ C5_NothingAfterFault]_vars

\* C6: reset after a load that returned leaves the pointer at 0x8000, for
\* every program that fits, those that reach the reset vector included, and
\* whatever the registers and the memory were before.
C6_ResetStep ==
    (call = "load" /\ phase = "Idle" /\ call' = "reset") =>
        program_counter' = 32768

C6_ResetAfterLoad == [][C6_ResetStep]_vars

C6_Witness ==
    /\ call = "reset"
    /\ calls = 3
    /\ VLen(program) = 32767
    /\ program_counter = 32768
    /\ memory_read(memory, 65534) = 232

\* C7: load_and_run of a program of 0..0x7FFF bytes, on a new machine or after
\* earlier loads and runs, returns: every iteration of execute moves the
\* pointer up and the pointer never passes 0xFFFF, so the iterations are at
\* most 0x8000; the pointer indexes the array at every fetch; and the run ends
\* Halted (on a fetched 0x00) or Faulted (on an unknown opcode) and in no
\* other way.
C7_RunStates ==
    (call = "load_and_run" /\ VLen(program) <= 32767) =>
        /\ phase \in {"Running", "Halted", "Faulted"}
        /\ program_counter \in 32768..65535
        /\ phase = "Running" => program_counter <= 65534
        /\ phase = "Halted" => opscode = 0
        /\ phase = "Faulted" => opscode \notin {169, 170, 232, 0}

C7_PointerMovesUp ==
    (call = "load_and_run" /\ phase = "Running") =>
        program_counter' > program_counter

C7_Terminates == []C7_RunStates /\ [][C7_PointerMovesUp]_vars

C7_Witness ==
    /\ RunEnded
    /\ phase = "Faulted"
    /\ calls = 2
    /\ VLen(program) = 32767
    /\ program_counter = 65534
    /\ opscode = 128

\* C8: reset sets A, X and the status to 0 and the pointer to the
\* little-endian 16-bit value at 0xFFFC/0xFFFD, and leaves Y and the memory
\* as they were.
C8_ResetStep ==
    (call' = "reset" /\ calls' = calls + 1) =>
        /\ register_a' = 0
        /\ register_x' = 0
        /\ processor_status' = 0
        /\ program_counter' =
              memory_read(memory, 65532) + 256 * memory_read(memory, 65533)
        /\ register_y' = register_y
        /\ memory' = memory

C8_ResetFrame == [][C8_ResetStep]_vars

C8_Witness ==
    /\ call = "reset"
    /\ register_y = 7
    /\ program_counter = 32768
    /\ memory # ZeroMemory

\* The addresses at which the bytes of a segment can change value, read
\* upwards: every byte of its head and of its tail, both ends of its run of
\* fill bytes, and the address before and after it.  Between two neighbouring
\* such addresses the segment is constant.
SegProbes(s) ==
    LET h == s.at + Len(s.src.head)
        r == h + s.src.reps
    IN  {s.at + i : i \in 0..(Len(s.src.head) - 1)}
            \cup {r + i : i \in 0..(Len(s.src.tail) - 1)}
            \cup {s.at - 1, h - 1, h, r - 1, r, SegEnd(s) - 1, SegEnd(s)}

\* The addresses that decide whether the memories before and after a load of
\* p agree with what a statement about the load says of them: the probes of
\* every segment of both, of p at the origin and of the reset vector, and the
\* two ends of the array.  Between two neighbouring probes both memories and
\* p are constant, so what holds at the probes holds at every address.
LoadProbes(before, after, p) ==
    (UNION {SegProbes(s) : s \in before \cup after \cup {[at |-> 32768, src |-> p]}}
        \cup {0, 65531, 65532, 65533, 65534})
    \cap (0..65534)

\* A load has returned: the step of a load whose slice range fits.
LoadReturns == call' = "load" /\ calls' = calls + 1 /\ phase' = "Idle"

InProgram(a, p) == 32768 <= a /\ a < 32768 + VLen(p)

\* C9 as claimed: after a load that returns, every program byte is in memory
\* where it was copied, the reset vector holds 0x00, 0x80, and no other byte
\* and no register has changed.
C9_LoadStepClaimed ==
    LoadReturns =>
        /\ \A a \in LoadProbes(memory, memory', program') :
              /\ InProgram(a, program') =>
                    memory_read(memory', a) = VAt(program', a - 32768)
              /\ a = 65532 => memory_read(memory', a) = 0
              /\ a = 65533 => memory_read(memory', a) = 128
              /\ (~InProgram(a, program') /\ a \notin {65532, 65533}) =>
                    memory_read(memory', a) = memory_read(memory, a)
        /\ UNCHANGED <<regs, program_counter>>

C9_LoadVerbatim == [][C9_LoadStepClaimed]_vars

\* C9 amended: after a load that returns, every program byte copied to an
\* address other than 0xFFFC and 0xFFFD is in memory where it was copied, the
\* reset vector holds 0x00, 0x80 (over the program bytes copied there, if the
\* program has more than 0x7FFC bytes), and no other byte and no register has
\* changed.
C9_LoadStepAmended ==
    LoadReturns =>
        /\ \A a \in LoadProbes(memory, memory', program') :
              /\ (InProgram(a, program') /\ a \notin {65532, 65533}) =>
                    memory_read(memory', a) = VAt(program', a - 32768)
              /\ a = 65532 => memory_read(memory', a) = 0
              /\ a = 65533 => memory_read(memory', a) = 128
              /\ (~InProgram(a, program') /\ a \notin {65532, 65533}) =>
                    memory_read(memory', a) = memory_read(memory, a)
        /\ UNCHANGED <<regs, program_counter>>

C9_LoadVerbatimBelowVector == [][C9_LoadStepAmended]_vars

C9_Witness ==
    /\ call = "load"
    /\ phase = "Idle"
    /\ VLen(program) = 32767
    /\ VAt(program, 32764) = 232
    /\ memory_read(memory, 65531) = 169
    /\ memory_read(memory, 65532) = 0
    /\ memory_read(memory, 65533) = 128
    /\ memory_read(memory, 65534) = 232

\* C10: a load of a program of more than 0x7FFF bytes fails with a panic and
\* writes nothing: the memory and the registers are as before, and no segment
\* of the memory ever lies outside the array.
C10_OversizeStep ==
    (/\ calls' = calls + 1
     /\ call' \in {"load", "load_and_run"}
     /\ VLen(program') > 32767) =>
        /\ phase' = "Panicked"
        /\ panic'.msg = "range end index out of range"
        /\ memory' = memory
        /\ UNCHANGED <<regs, program_counter>>

C10_InsideArray == \A s \in memory : 0 <= s.at /\ SegEnd(s) <= 65535

C10_OversizeFails == [][C10_OversizeStep]_vars /\ []C10_InsideArray

C10_Witness ==
    /\ phase = "Panicked"
    /\ call = "load"
    /\ VLen(program) = 32768
    /\ panic = SlicePanic(65536)
    /\ memory # ZeroMemory
    /\ register_y = 7

\* ------------------------------------------------------------ C11

\* The machine: every field of the CPU, with how far the call in progress
\* has come and the panic it raised.
Machine ==
    [ register_a |-> register_a,
      register_x |-> register_x,
      register_y |-> register_y,
      processor_status |-> processor_status,
      program_counter |-> program_counter,
      memory |-> memory,
      phase |-> phase,
      panic |-> panic ]

\* The machine m after load(p) returned or panicked; a panic ends the
\* sequence of calls.
after_load(m, p) ==
    IF m.phase = "Panicked" THEN m
    ELSE IF LoadFits(p)
         THEN [m EXCEPT !.memory = Loaded(m.memory, p), !.phase = "Idle"]
         ELSE [m EXCEPT !.phase = "Panicked",
                        !.panic = SlicePanic(Origin + VLen(p))]

\* The machine m after reset().
after_reset(m) ==
    IF m.phase = "Panicked" THEN m
    ELSE [m EXCEPT !.register_a = 0,
                   !.register_x = 0,
                   !.processor_status = 0,
                   !.program_counter = memory_read_u16(m.memory, ResetVector),
                   !.phase = "Idle"]

\* The machine m when execute() is entered.
after_execute(m) ==
    IF m.phase = "Panicked" THEN m ELSE [m EXCEPT !.phase = "Running"]

\* A call of the named operation is made in this step.
Calls(name) == call' = name /\ calls' = calls + 1

\* load, reset and execute called one at a time do what after_load,
\* after_reset and after_execute say.
C11_SeparateCalls ==
    /\ Calls("load") => Machine' = after_load(Machine, program')
    /\ Calls("reset") => Machine' = after_reset(Machine)
    /\ Calls("execute") => Machine' = after_execute(Machine)

\* load_and_run(program) enters its fetch loop on the machine that load,
\* reset and execute in sequence enter theirs on.
C11_OneCall ==
    Calls("load_and_run")
        => Machine' = after_execute(after_reset(after_load(Machine, program')))

\* The fetch loop changes neither the name of the call that entered it nor
\* the number of calls made, and reads neither: from the same machine it
\* goes the same way under load_and_run as under execute.
C11_LoopIgnoresCaller == phase = "Running" => UNCHANGED <<call, calls, program>>

\* C11: load_and_run(program) is load(program), reset(), execute() in that
\* order: from the same machine, the call and the sequence of calls enter the
\* fetch loop with the same registers, status, pointer and memory, or both
\* end in the panic of load, so that they end with the same registers,
\* status, pointer, memory and outcome.
C11_LoadAndRunIsSequence ==
    [][C11_SeparateCalls /\ C11_OneCall /\ C11_LoopIgnoresCaller]_vars

\* load, reset and execute were called in sequence with [LDA #0xFF, TAX, INX,
\* BRK] and the run halted as load_and_run halts on it.
C11_Witness ==
    /\ calls = 3
    /\ call = "execute"
    /\ phase = "Halted"
    /\ program = Vec(<<169, 255, 170, 232, 0>>)
    /\ register_a = 255
    /\ register_x = 0
    /\ processor_status = 2
    /\ program_counter = Origin + 5

\* ------------------------------------------------------------ C12

\* C12: in every state reachable by new, load, reset, execute and
\* load_and_run, the pointer is inside 0..0xFFFE (it is never advanced past
\* the addressable range), so that no fetch of execute reads outside the
\* memory array, calls of execute after a halt without a reset included.
C12_PointerInsideMemory ==
    /\ InBounds(program_counter)
    /\ panic.msg # IndexPanic(program_counter).msg

\* ------------------------------------------------------------ C13

\* The bits of the status other than Zero (bit 1) and Negative (bit 7).
OtherBits == {0, 2, 3, 4, 5, 6}

\* A step of LDA, TAX or INX that completes ends with Zero set exactly when
\* the result is 0, Negative equal to bit 7 of the result, and the other six
\* bits as they were.
C13_FlagStep ==
    \A op \in {OpLDA, OpTAX, OpINX} :
        (Fetching(op) /\ phase' # "Panicked")
            => LET result == IF op = OpLDA THEN register_a' ELSE register_x'
               IN /\ ZeroSet(processor_status') <=> result = 0
                  /\ NegativeSet(processor_status') <=> Bit(result, 7) = 1
                  /\ \A k \in OtherBits :
                         Bit(processor_status', k) = Bit(processor_status, k)

\* A step that fetches 0x00 or an opcode with no arm, and a step that
\* panics, leave the status as it was.
C13_OtherStep ==
    (/\ phase = "Running"
     /\ \/ phase' = "Panicked"
        \/ ~Fetching(OpLDA) /\ ~Fetching(OpTAX) /\ ~Fetching(OpINX))
        => processor_status' = processor_status

\* From the reset of load_and_run on, the other six bits are 0.
C13_OtherBitsClear ==
    (call = "load_and_run" /\ phase # "Panicked")
        => \A k \in OtherBits : Bit(processor_status, k) = 0

\* C13: every step of 0xA9, 0xAA and 0xE8 ends with Zero = (result == 0) and
\* Negative = bit 7 of the result and leaves status bits 0 and 2..6 as they
\* were; 0x00 and a faulting opcode leave the status alone; so after
\* load_and_run, which resets the status to 0, those six bits are 0.
C13_OnlyZeroAndNegative ==
    [][C13_FlagStep /\ C13_OtherStep]_vars /\ []C13_OtherBitsClear

\* execute ran LDA #0x80, TAX, INX on a status written to 0b0111_1101: the
\* six other bits are still set, Negative is set and Zero is clear.
C13_Witness ==
    /\ call = "execute"
    /\ phase = "Halted"
    /\ register_a = 128
    /\ register_x = 129
    /\ processor_status = 253

\* ------------------------------------------------------------ C14

\* A completed step of LDA moves the pointer by 2 and loads the byte after
\* the opcode; a step of TAX, INX or BRK moves it by 1.
C14_AdvanceStep ==
    /\ (Fetching(OpLDA) /\ phase' # "Panicked")
           => /\ program_counter' = program_counter + 2
              /\ register_a' = memory_read(memory, program_counter + 1)
    /\ \A op \in {OpTAX, OpINX, OpBRK} :
           Fetching(op) => program_counter' = program_counter + 1

\* The byte decoded by a step is the byte at the pointer the step before
\* left.
C14_DecodeStep ==
    (phase = "Running" /\ InBounds(program_counter))
        => opscode' = memory_read(memory, program_counter)

\* [LDA #0x00, LDA #0x05, BRK]: the operand 0x00 is not taken for a halt.
C14_OperandProgram == Vec(<<169, 0, 169, 5, 0>>)

\* The run of that program ends Halted with 5 in the accumulator and the
\* pointer at 0x8005.
C14_OperandNotDecoded ==
    (RunEnded /\ program = C14_OperandProgram)
        => /\ phase = "Halted"
           /\ register_a = 5
           /\ program_counter = Origin + 5

\* C14: each step advances the pointer by 1 plus the operand count of the
\* opcode (2 for 0xA9; 1 for 0xAA, 0xE8, 0x00), so that an operand byte is
\* never decoded as an opcode: [0xA9, 0x00, 0xA9, 0x05, 0x00] ends Halted
\* with accumulator 5 and the pointer at 0x8005.
C14_PointerAdvance ==
    [][C14_AdvanceStep /\ C14_DecodeStep]_vars /\ []C14_OperandNotDecoded

\* load_and_run of [0xA9, 0x00, 0xA9, 0x05, 0x00] has ended, past the
\* operand 0x00.
C14_Witness ==
    /\ RunEnded
    /\ program = C14_OperandProgram
    /\ opscode = OpBRK
    /\ register_a = 5
    /\ program_counter = Origin + 5

\* ------------------------------------------------------------ C15

\* The addresses that decide whether two memories agree away from pos and
\* pos + 1: the probes of every segment of both, the neighbours of the two
\* bytes and the two ends of the array.
WordProbes(before, after, pos) ==
    ((UNION {SegProbes(s) : s \in before \cup after}
        \cup {0, pos - 1, pos + 2, MemSize - 1})
        \cap (0..(MemSize - 1)))
    \ {pos, pos + 1}

\* A write of data at pos with pos + 1 inside the array stores the low byte
\* at pos and the high byte at pos + 1, changes no other byte, and the
\* 16-bit read at pos returns data.
C15_WordStep ==
    \A pos \in WordAddrs, data \in Words :
        (WriteWord(pos, data) /\ InBounds(pos + 1))
            => /\ memory_read(memory', pos) = data % 256
               /\ memory_read(memory', pos + 1) = data \div 256
               /\ \A a \in WordProbes(memory, memory', pos) :
                      memory_read(memory', a) = memory_read(memory, a)
               /\ memory_read_u16(memory', pos) = data

\* C15: for every address addr with addr + 1 inside the memory array and
\* every 16-bit value v, write16(addr, v) stores the low byte of v at addr
\* and the high byte at addr + 1, changes no other byte, and read16(addr)
\* then returns v.
C15_WordRoundTrip == [][C15_WordStep]_vars

\* 0x1234 was written at the last address with a byte after it, over the
\* high byte of an earlier write at the reset vector, with a program loaded.
C15_Witness ==
    /\ call = "memory_write_u16"
    /\ phase = "Idle"
    /\ memory_read(memory, MemSize - 2) = 52
    /\ memory_read(memory, MemSize - 1) = 18
    /\ memory_read(memory, ResetVector) = 255
    /\ memory_read(memory, Origin) = 169

\* ------------------------------------------------------------ C16

\* The entry of execute and every iteration of its loop, the loop of
\* load_and_run included, leave every byte of memory as it was.
C16_ExecuteStep == (Calls("execute") \/ phase = "Running") => memory' = memory

\* Every step but construction and a direct write of a field, that is every
\* step of load, reset, execute and load_and_run, leaves register_y alone.
C16_IndexYStep == call' \notin {"new", "write"} => register_y' = register_y

\* C16: execute never writes memory (memory is changed only by load and the
\* 16-bit write inside it), and no operation other than new changes
\* index_y: it keeps its value across load, reset, execute and
\* load_and_run.
C16_MemoryAndIndexYKept == [][C16_ExecuteStep /\ C16_IndexYStep]_vars

\* register_y was written to 7, [BRK, INX, TAX, BRK] was run by
\* load_and_run and then by execute: 7 is still there and memory is what
\* the load left.
C16_Witness ==
    /\ call = "execute"
    /\ phase = "Halted"
    /\ register_y = 7
    /\ program_counter = Origin + 4
    /\ memory = Loaded(ZeroMemory, Vec(<<0, 232, 170, 0>>))

\* ------------------------------------------------------------ C17

\* C17: during and after load_and_run, from its reset on, Zero and Negative
\* are never both set and no other bit is set: the status is 0x00, 0x02 or
\* 0x80.
C17_ZeroOrNegative ==
    (call = "load_and_run" /\ phase # "Panicked")
        => processor_status \in {0, ZeroFlag, NegativeFlag}

\* load_and_run of [LDA #0xFF, TAX, INX, BRK] has ended: the increment
\* wrapped to 0, Zero is set and Negative, set by the two steps before, is
\* clear.
C17_Witness ==
    /\ RunEnded
    /\ phase = "Halted"
    /\ register_a = 255
    /\ register_x = 0
    /\ processor_status = ZeroFlag

\* ------------------------------------------------------------ C18

\* The status a run that started from reset has after a step with this
\* result: Zero and Negative of the result, every other bit 0.
FlagsOf(result) ==
    (IF result = 0 THEN ZeroFlag ELSE 0)
        + (IF result > NegativeMask THEN NegativeFlag ELSE 0)

\* The run of execute read off the bytes of program p alone, from index i
\* with a, x and status st: where and how it ends, or "Outside" when a fetch
\* leaves the bytes of p that load left in memory (the end of p, or the
\* reset vector written over it).
RECURSIVE RunFrom(_, _, _, _, _)
RunFrom(p, i, a, x, st) ==
    LET inside(j) == j < VLen(p) /\ Origin + j < ResetVector
        outside == [outcome |-> "Outside", register_a |-> a, register_x |-> x,
                    processor_status |-> st, program_counter |-> Origin + i]
    IN  IF ~inside(i) THEN outside
        ELSE CASE VAt(p, i) = OpBRK ->
                    [outcome |-> "Halted", register_a |-> a, register_x |-> x,
                     processor_status |-> st,
                     program_counter |-> Origin + i + 1]
               [] VAt(p, i) = OpLDA ->
                    IF inside(i + 1)
                    THEN RunFrom(p, i + 2, VAt(p, i + 1), x,
                                 FlagsOf(VAt(p, i + 1)))
                    ELSE outside
               [] VAt(p, i) = OpTAX -> RunFrom(p, i + 1, a, a, FlagsOf(a))
               [] VAt(p, i) = OpINX ->
                    RunFrom(p, i + 1, a, (x + 1) % (MaxU8 + 1),
                            FlagsOf((x + 1) % (MaxU8 + 1)))
               [] OTHER ->
                    [outcome |-> "Faulted", register_a |-> a,
                     register_x |-> x, processor_status |-> st,
                     program_counter |-> Origin + i + 1]

\* What load_and_run(p) ends with, as a function of p and of nothing else.
RunOf(p) ==
    IF LoadFits(p) THEN RunFrom(p, 0, 0, 0, 0)
    ELSE [outcome |-> "Panicked", register_a |-> 0, register_x |-> 0,
          processor_status |-> 0, program_counter |-> 0]

\* C18: for a program whose execution reaches a halt opcode inside the
\* program's own bytes, the accumulator, index_x, status, pointer and
\* outcome load_and_run ends with are a function of the program alone: the
\* same for every prior state of the registers, the status, the pointer and
\* memory.
C18_EndDependsOnProgramOnly ==
    (RunEnded /\ RunOf(program).outcome = "Halted")
        => /\ phase = RunOf(program).outcome
           /\ register_a = RunOf(program).register_a
           /\ register_x = RunOf(program).register_x
           /\ processor_status = RunOf(program).processor_status
           /\ program_counter = RunOf(program).program_counter

\* load_and_run of [LDA #5, TAX, BRK] has halted on a machine that was not
\* fresh: two calls came before it, register_y had been written and memory
\* holds more than this load put there.
C18_Witness ==
    /\ RunEnded
    /\ phase = "Halted"
    /\ calls = 3
    /\ program = Vec(<<169, 5, 170, 0>>)
    /\ register_x = 5
    /\ register_y = 7
    /\ memory # Loaded(ZeroMemory, program)

====
